---- MODULE Spec2Model ----
(***************************************************************************)
(* RipeSense backend: the classification pipeline of                       *)
(* backend/services/classifier.py (ProduceClassifier, get_classifier) and  *)
(* the /classify endpoint of backend/main.py.                              *)
(*                                                                         *)
(* Strings are sequences of one-character strings.  Floats are exact       *)
(* fractions <<num, den>>; the items of one response share one den.        *)
(***************************************************************************)
EXTENDS Integers, Sequences, FiniteSets, TLC

VARIABLES
    TF_AVAILABLE,   \* module flag set by the tensorflow import (classifier.py 17-22)
    _classifier,    \* the module singleton: "None" or "ProduceClassifier"
    use_mock,       \* ProduceClassifier.use_mock
    models,         \* ProduceClassifier.models, produce type -> handle
    loads,          \* history: tf.keras.models.load_model calls per produce type
    started,        \* the lifespan startup has run
    last,           \* observation of the last call: arguments, exception, result
    threads,        \* concurrent load_model calls: position and locals of each
    arg,            \* input of the pure function under study
    ret             \* its output

vars == <<TF_AVAILABLE, _classifier, use_mock, models, loads, started, last,
          threads, arg, ret>>

(***************************************************************************)
(* Bounds of the model.                                                    *)
(***************************************************************************)
MaxInputLen == 5
MaxVectorLen == 5
NumThreads == 2

(***************************************************************************)
(* Class tables and produce types.                                         *)
(***************************************************************************)
AVOCADO_CLASSES ==
    << [name |-> "underripe",    label |-> "Underripe"],
       [name |-> "breaking",     label |-> "Breaking"],
       [name |-> "ripe_stage_1", label |-> "Ripe (Stage 1)"],
       [name |-> "ripe_stage_2", label |-> "Ripe (Stage 2)"],
       [name |-> "overripe",     label |-> "Overripe"] >>

BANANA_CLASSES ==
    << [name |-> "unripe",   label |-> "Unripe"],
       [name |-> "ripe",     label |-> "Ripe"],
       [name |-> "overripe", label |-> "Overripe"] >>

\* the keys of self.class_mappings; also the Literal of the request schema
KnownTypes == {"avocado", "banana"}

\* produce_type is a plain str in the classifier: one string outside the table
ProduceTypes == KnownTypes \cup {"mango"}

\* self.class_mappings.get(produce_type, default)
class_mappings_get(produce_type, default) ==
    IF produce_type = "avocado" THEN AVOCADO_CLASSES
    ELSE IF produce_type = "banana" THEN BANANA_CLASSES
    ELSE default

\* f"class_{idx}" / f"Class {idx}", idx zero-based
Placeholder(idx) ==
    CASE idx = 0 -> [name |-> "class_0", label |-> "Class 0"]
      [] idx = 1 -> [name |-> "class_1", label |-> "Class 1"]
      [] idx = 2 -> [name |-> "class_2", label |-> "Class 2"]
      [] idx = 3 -> [name |-> "class_3", label |-> "Class 3"]
      [] idx = 4 -> [name |-> "class_4", label |-> "Class 4"]
      [] idx = 5 -> [name |-> "class_5", label |-> "Class 5"]
      [] idx = 6 -> [name |-> "class_6", label |-> "Class 6"]
      [] OTHER   -> [name |-> "class_n", label |-> "Class n"]

\* class_mapping.get(idx, {"name": f"class_{idx}", ...}), idx zero-based
class_info(class_mapping, idx) ==
    IF idx + 1 \in DOMAIN class_mapping THEN class_mapping[idx + 1]
    ELSE Placeholder(idx)

(***************************************************************************)
(* Exceptions.  The endpoint tells ValueError (and its subclasses) from    *)
(* every other Exception.                                                  *)
(***************************************************************************)
NoExc == "none"

\* binascii.Error and pydantic's ValidationError derive from ValueError
IsValueError(exc) == exc \in {"ValueError", "binascii.Error", "ValidationError"}

(***************************************************************************)
(* Image codec: decode_base64_image.                                       *)
(***************************************************************************)
Chars == {"i", "x", "!", ","}

\* the characters b64decode keeps; it discards the others (validate=False)
B64Alphabet == {"i", "x"}

Strings(n) == UNION {[1..k -> Chars] : k \in 0..n}

Contains(s, c) == \E i \in 1..Len(s) : s[i] = c

FirstIndex(s, c) == CHOOSE i \in 1..Len(s) : s[i] = c /\ \A j \in 1..(i-1) : s[j] # c

\* str.split(sep): the fields between the separators
RECURSIVE split(_, _)
split(s, sep) ==
    IF ~Contains(s, sep) THEN <<s>>
    ELSE LET i == FirstIndex(s, sep)
         IN  <<SubSeq(s, 1, i - 1)>> \o split(SubSeq(s, i + 1, Len(s)), sep)

\* classifier.py 145-146
strip_data_url(base64_string) ==
    IF Contains(base64_string, ",") THEN split(base64_string, ",")[2]
    ELSE base64_string

\* everything after the first comma, or the whole string
AfterFirstComma(s) ==
    IF Contains(s, ",") THEN SubSeq(s, FirstIndex(s, ",") + 1, Len(s)) ELSE s

B64Filter(s) == SelectSeq(s, LAMBDA c : c \in B64Alphabet)

\* one group of four base64 characters decodes to three bytes: a group is
\* either the magic header of an image format or other data
B64Group(g) == IF g = <<"i", "i", "i", "i">> THEN "MAGIC" ELSE "DATA"

\* base64.b64decode: [exc, bytes]
b64decode(s) ==
    LET d == B64Filter(s)
    IN  IF Len(d) % 4 # 0
        THEN [exc |-> "binascii.Error", bytes |-> <<>>]
        ELSE [exc |-> NoExc,
              bytes |-> [k \in 1..(Len(d) \div 4) |->
                            B64Group(SubSeq(d, 4 * k - 3, 4 * k))]]

\* Image.open: recognises the format by the header, reads pixels lazily
Image_open(image_data) ==
    IF Len(image_data) >= 1 /\ image_data[1] = "MAGIC"
    THEN [exc |-> NoExc, image |-> image_data]
    ELSE [exc |-> "UnidentifiedImageError", image |-> <<>>]

\* decode_base64_image: [exc, payload, image]
decode_base64_image(base64_string) ==
    LET payload == strip_data_url(base64_string)
        dec     == b64decode(payload)
        img     == Image_open(dec.bytes)
    IN  IF dec.exc # NoExc
        THEN [exc |-> dec.exc, payload |-> payload, image |-> <<>>]
        ELSE [exc |-> img.exc, payload |-> payload, image |-> img.image]

MODEL_INPUT_SIZE == 224

\* preprocess_image: convert/resize read the pixel data, which a file that
\* holds only its header does not have (OSError); else a (1,224,224,3) tensor
preprocess_image(image) ==
    IF Len(image) < 2
    THEN [exc |-> "OSError", shape |-> <<>>]
    ELSE [exc |-> NoExc, shape |-> <<1, MODEL_INPUT_SIZE, MODEL_INPUT_SIZE, 3>>]

(***************************************************************************)
(* Probability vectors and the mock predictor.                             *)
(***************************************************************************)
RECURSIVE SumSeq(_)
SumSeq(s) == IF s = <<>> THEN 0 ELSE s[1] + SumSeq(Tail(s))

\* np.random.random draws in [0, 1), in hundredths
DrawVals == {5, 90}

\* random.uniform(0.7, 0.95) draws, in hundredths
DominantVals == {70, 95}

\* the draws one _mock_predict call makes for a table of n classes
MockDraws(n) ==
    [rnd : [1..n -> DrawVals], dominant_idx : 0..(n - 1), dominant : DominantVals]

\* _mock_predict: the draws rnd with one entry overwritten, divided by their sum
_mock_predict(produce_type, draws) ==
    LET class_mapping == class_mappings_get(produce_type, AVOCADO_CLASSES)
        num_classes   == Len(class_mapping)
        predictions   == [i \in 1..num_classes |->
                            IF i = draws.dominant_idx + 1 THEN draws.dominant
                            ELSE draws.rnd[i]]
    IN  [num |-> predictions, den |-> SumSeq(predictions)]

(***************************************************************************)
(* Response builder: classify, lines 208-234.                              *)
(***************************************************************************)
Reverse(s) == [i \in 1..Len(s) |-> s[Len(s) + 1 - i]]

\* a.confidence < b.confidence for two fractions of positive denominators
ConfLess(a, b) == a.confidence[1] * b.confidence[2] < b.confidence[1] * a.confidence[2]

ConfEq(a, b) == a.confidence[1] * b.confidence[2] = b.confidence[1] * a.confidence[2]

\* insert x after every element not greater than it: keeps equal keys in order
RECURSIVE InsertStable(_, _)
InsertStable(sorted, x) ==
    IF sorted = <<>> THEN <<x>>
    ELSE IF ConfLess(x, Head(sorted)) THEN <<x>> \o sorted
    ELSE <<Head(sorted)>> \o InsertStable(Tail(sorted), x)

\* a stable ascending sort by confidence
RECURSIVE StableSort(_)
StableSort(s) ==
    IF s = <<>> THEN <<>>
    ELSE InsertStable(StableSort(SubSeq(s, 1, Len(s) - 1)), s[Len(s)])

\* list.sort(key=confidence, reverse=True): CPython reverses the list, sorts
\* it stably ascending and reverses it again
SortReverseUnstable(s) == Reverse(StableSort(s))

sort_reverse(s) == Reverse(StableSort(Reverse(s)))

NoResult ==
    [success |-> FALSE, produce_type |-> "", predicted_class |-> "",
     predicted_label |-> "", confidence |-> <<0, 1>>, all_predictions |-> <<>>]

\* lines 208-219: one item per index of the vector
prediction_items(predictions, produce_type) ==
    LET class_mapping == class_mappings_get(produce_type, <<>>)
    IN  [i \in 1..Len(predictions.num) |->
            [class_name  |-> class_info(class_mapping, i - 1).name,
             class_label |-> class_info(class_mapping, i - 1).label,
             confidence  |-> <<predictions.num[i], predictions.den>>]]

\* lines 208-234: [exc, result]
build_response(predictions, produce_type) ==
    LET all_predictions == sort_reverse(prediction_items(predictions, produce_type))
    IN  IF all_predictions = <<>>
        THEN [exc |-> "IndexError", result |-> NoResult]
        ELSE [exc |-> NoExc,
              result |-> [success         |-> TRUE,
                          produce_type    |-> produce_type,
                          predicted_class |-> all_predictions[1].class_name,
                          predicted_label |-> all_predictions[1].class_label,
                          confidence      |-> all_predictions[1].confidence,
                          all_predictions |-> all_predictions]]

(***************************************************************************)
(* Model registry: load_model.                                             *)
(***************************************************************************)
NoEntry == [kind |-> "none", out |-> 0]

Mock == [kind |-> "mock", out |-> 0]

\* the model object loaded from an artifact, known by its output length
Real(out) == [kind |-> "real", out |-> out]

\* output lengths of the models an artifact may hold
OutputLens == {3, 5}

\* what tf.keras.models.load_model does with an artifact: raise, or a model
LoadOutcomes ==
    {[exc |-> "Exception", out |-> 0]} \cup {[exc |-> NoExc, out |-> n] : n \in OutputLens}

\* what one load_model call may find on disk, sampled: every combination of the two
\* paths and every outcome of a load
FsOutcomes ==
    {[h5_exists |-> FALSE, saved_exists |-> FALSE, load |-> [exc |-> "Exception", out |-> 0]],
     [h5_exists |-> TRUE,  saved_exists |-> FALSE, load |-> [exc |-> "Exception", out |-> 0]],
     [h5_exists |-> FALSE, saved_exists |-> TRUE,  load |-> [exc |-> NoExc, out |-> 3]],
     [h5_exists |-> TRUE,  saved_exists |-> TRUE,  load |-> [exc |-> NoExc, out |-> 5]]}

NoFs == [h5_exists |-> FALSE, saved_exists |-> FALSE, load |-> [exc |-> "Exception", out |-> 0]]

\* lines 89-93
model_path(fs) ==
    IF fs.h5_exists THEN "keras_model.h5"
    ELSE IF fs.saved_exists THEN "saved_model"
    ELSE "None"

\* the call reads the disk: lines 86-93 are reached
ReadsDisk(um, mdl, produce_type) ==
    ~um /\ mdl[produce_type].kind = "none" /\ TF_AVAILABLE

\* load_model with the cache check of line 76 left out
load_model_nocache(um, mdl, lds, produce_type, fs) ==
    IF um \/ ~TF_AVAILABLE
    THEN [use_mock |-> TRUE, models |-> [mdl EXCEPT ![produce_type] = Mock],
          loads |-> lds, ret |-> TRUE, exc |-> NoExc]
    ELSE IF model_path(fs) = "None"
    THEN [use_mock |-> um, models |-> [mdl EXCEPT ![produce_type] = Mock],
          loads |-> lds, ret |-> TRUE, exc |-> NoExc]
    ELSE [use_mock |-> um,
          models |-> [mdl EXCEPT ![produce_type] =
                        IF fs.load.exc = NoExc THEN Real(fs.load.out)
                        ELSE Mock],
          loads |-> [lds EXCEPT ![produce_type] = IF @ < 3 THEN @ + 1 ELSE @],
          ret |-> TRUE, exc |-> NoExc]

\* load_model with the try/except of lines 101-112 left out
load_model_noexcept(um, mdl, lds, produce_type, fs) ==
    IF ReadsDisk(um, mdl, produce_type) /\ model_path(fs) # "None" /\ fs.load.exc # NoExc
    THEN [use_mock |-> um, models |-> mdl,
          loads |-> [lds EXCEPT ![produce_type] = @ + 1],
          ret |-> FALSE, exc |-> fs.load.exc]
    ELSE load_model_nocache(um, mdl, lds, produce_type, fs)

\* load_model, lines 62-112: [use_mock, models, loads, ret, exc]
load_model(um, mdl, lds, produce_type, fs) ==
    IF um
    THEN \* 71-74
         [use_mock |-> um, models |-> [mdl EXCEPT ![produce_type] = Mock],
          loads |-> lds, ret |-> TRUE, exc |-> NoExc]
    ELSE IF mdl[produce_type].kind # "none"
    THEN \* 76-77
         [use_mock |-> um, models |-> mdl, loads |-> lds, ret |-> TRUE, exc |-> NoExc]
    ELSE IF ~TF_AVAILABLE
    THEN \* 79-83
         [use_mock |-> TRUE, models |-> [mdl EXCEPT ![produce_type] = Mock],
          loads |-> lds, ret |-> TRUE, exc |-> NoExc]
    ELSE IF model_path(fs) = "None"
    THEN \* 95-99
         [use_mock |-> um, models |-> [mdl EXCEPT ![produce_type] = Mock],
          loads |-> lds, ret |-> TRUE, exc |-> NoExc]
    ELSE \* 101-112: the load is attempted once; a raise is caught
         [use_mock |-> um,
          models |-> [mdl EXCEPT ![produce_type] =
                        IF fs.load.exc = NoExc THEN Real(fs.load.out)
                        ELSE Mock],
          loads |-> [lds EXCEPT ![produce_type] = @ + 1],
          ret |-> TRUE, exc |-> NoExc]

(***************************************************************************)
(* Service facade: classify, lines 177-234.                                *)
(***************************************************************************)
\* what model.predict(input_data)[0] may be for a model of n outputs: a raise,
\* or a vector of n floats (in hundredths), which the code takes as it is
RealOutputs(n) ==
    {[exc |-> "Exception", vec |-> <<>>]} \cup
    (IF n = 3
     THEN {[exc |-> NoExc, vec |-> <<70, 20, 10>>],
           [exc |-> NoExc, vec |-> <<40, 40, 20>>],
           [exc |-> NoExc, vec |-> <<150, -30, -20>>]}
     ELSE {[exc |-> NoExc, vec |-> [i \in 1..n |-> IF i = 2 THEN 100 - 15 * (n - 1) ELSE 15]],
           [exc |-> NoExc, vec |-> [i \in 1..n |-> 20]]})

NoOutput == [exc |-> "Exception", vec |-> <<>>]

NoPredictions == [num |-> <<>>, den |-> 1]

Failed(lm, exc, payload) ==
    [use_mock |-> lm.use_mock, models |-> lm.models, loads |-> lm.loads,
     exc |-> exc, result |-> NoResult, payload |-> payload,
     predictions |-> NoPredictions]

\* classify with the image decoded before the model is resolved
classify_decode_first(um, mdl, lds, image_base64, produce_type, fs, draws, output) ==
    LET lm  == load_model(um, mdl, lds, produce_type, fs)
        dec == decode_base64_image(image_base64)
        pre == preprocess_image(dec.image)
        model == lm.models[produce_type]
        predictions == IF model.kind = "mock" \/ ~TF_AVAILABLE
                       THEN _mock_predict(produce_type, draws)
                       ELSE [num |-> output.vec, den |-> 100]
        built == build_response(predictions, produce_type)
    IN  IF dec.exc # NoExc
        THEN [use_mock |-> um, models |-> mdl, loads |-> lds,
              exc |-> dec.exc, result |-> NoResult, payload |-> dec.payload,
              predictions |-> NoPredictions]
        ELSE IF pre.exc # NoExc
        THEN [use_mock |-> um, models |-> mdl, loads |-> lds,
              exc |-> pre.exc, result |-> NoResult, payload |-> dec.payload,
              predictions |-> NoPredictions]
        ELSE IF model.kind = "real" /\ TF_AVAILABLE /\ output.exc # NoExc
        THEN Failed(lm, output.exc, dec.payload)
        ELSE [use_mock |-> lm.use_mock, models |-> lm.models, loads |-> lm.loads,
              exc |-> built.exc, result |-> built.result, payload |-> dec.payload,
              predictions |-> predictions]

\* classify: [use_mock, models, loads, exc, result, payload, predictions]
classify(um, mdl, lds, image_base64, produce_type, fs, draws, output) ==
    LET lm  == load_model(um, mdl, lds, produce_type, fs)          \* 192
        dec == decode_base64_image(image_base64)                  \* 196
        pre == preprocess_image(dec.image)                        \* 197
        model == lm.models[produce_type]                          \* 200
    IN  IF lm.exc # NoExc THEN Failed(lm, lm.exc, <<>>)
        ELSE IF ~lm.ret THEN Failed(lm, "ValueError", <<>>)       \* 193
        ELSE IF dec.exc # NoExc THEN Failed(lm, dec.exc, dec.payload)
        ELSE IF pre.exc # NoExc THEN Failed(lm, pre.exc, dec.payload)
        ELSE IF model.kind = "mock" \/ ~TF_AVAILABLE               \* 202-203
        THEN LET predictions == _mock_predict(produce_type, draws)
                 built == build_response(predictions, produce_type)
             IN  [use_mock |-> lm.use_mock, models |-> lm.models, loads |-> lm.loads,
                  exc |-> built.exc, result |-> built.result, payload |-> dec.payload,
                  predictions |-> predictions]
        ELSE IF model.kind = "none"                                \* None.predict
        THEN Failed(lm, "AttributeError", dec.payload)
        ELSE IF output.exc # NoExc THEN Failed(lm, output.exc, dec.payload)  \* 205
        ELSE LET predictions == [num |-> output.vec, den |-> 100]      \* 206
                 built == build_response(predictions, produce_type)
             IN  [use_mock |-> lm.use_mock, models |-> lm.models, loads |-> lm.loads,
                  exc |-> built.exc, result |-> built.result, payload |-> dec.payload,
                  predictions |-> predictions]

(***************************************************************************)
(* Transport: the /classify endpoint of main.py and the response schema.   *)
(***************************************************************************)
\* Field(ge=0.0, le=1.0) on a fraction of positive denominator
InUnit(c) == 0 <= c[1] /\ c[1] <= c[2]

\* ClassificationResponse(**result): the schema's bounds on every confidence
response_valid(result) ==
    /\ InUnit(result.confidence)
    /\ \A i \in 1..Len(result.all_predictions) :
          InUnit(result.all_predictions[i].confidence)

\* the status of classify_produce, lines 83-98
status_of(exc) ==
    IF exc = NoExc THEN 200
    ELSE IF IsValueError(exc) THEN 400
    ELSE 500

(***************************************************************************)
(* The service as a state machine: calls are atomic, as they are on the    *)
(* event loop (the handlers are coroutines that never await).              *)
(***************************************************************************)
EmptyModels == [p \in ProduceTypes |-> NoEntry]

ZeroLoads == [p \in ProduceTypes |-> 0]

NoCall ==
    [op |-> "none", produce_type |-> "", image |-> <<>>, exc |-> NoExc, status |-> 0,
     ret |-> FALSE, result |-> NoResult, payload |-> <<>>, predictions |-> NoPredictions]

IdleThreads == [t \in 1..NumThreads |-> [pc |-> "idle", produce_type |-> "", model |-> NoEntry]]

\* sample request images
GoodImage == <<"i", "i", "i", "i", "x", "x", "x", "x">>

DataUrlImage == <<"x", "!", ",", "i", "i", "i", "i", "x", "x", "x", "x">>

BadBase64 == <<"x", "x", "!", "x", "!", "!">>

NotAnImage == <<"x", "x", "x", "x">>

HeaderOnly == <<"i", "i", "i", "i">>

Images == {GoodImage, DataUrlImage, BadBase64, NotAnImage, HeaderOnly}

\* sample draws of the mock predictor for the calls of the service: every rnd
\* entry alike, the dominant class last
SampleDraws(produce_type) ==
    LET n == Len(class_mappings_get(produce_type, AVOCADO_CLASSES))
    IN  {[rnd |-> [i \in 1..n |-> v], dominant_idx |-> n - 1, dominant |-> d] :
            v \in DrawVals, d \in DominantVals}

NoDraws(produce_type) ==
    CHOOSE d \in SampleDraws(produce_type) : TRUE

Init ==
    /\ TF_AVAILABLE \in BOOLEAN
    /\ _classifier = "None"
    /\ use_mock = FALSE
    /\ models = EmptyModels
    /\ loads = ZeroLoads
    /\ started = FALSE
    /\ last = NoCall
    /\ threads = IdleThreads
    /\ arg = <<>>
    /\ ret = <<>>

\* the inputs a call reads from its environment, each only on the path that reads it
FsOf(um, mdl, p) == IF ReadsDisk(um, mdl, p) THEN FsOutcomes ELSE {NoFs}

Decodes(image) ==
    /\ decode_base64_image(image).exc = NoExc
    /\ preprocess_image(decode_base64_image(image).image).exc = NoExc

DrawsOf(lm, p, image) ==
    IF (lm.models[p].kind = "mock" \/ ~TF_AVAILABLE) /\ Decodes(image)
    THEN SampleDraws(p) ELSE {NoDraws(p)}

OutputsOf(lm, p, image) ==
    IF lm.models[p].kind = "real" /\ TF_AVAILABLE /\ Decodes(image)
    THEN RealOutputs(lm.models[p].out) ELSE {NoOutput}

\* get_classifier(use_mock), lines 241-252, called from outside the app
GetClassifier(um) ==
    /\ _classifier = "None"
    /\ _classifier' = "ProduceClassifier"
    /\ use_mock' = um
    /\ models' = EmptyModels
    /\ last' = [NoCall EXCEPT !.op = "get_classifier"]
    /\ UNCHANGED <<TF_AVAILABLE, loads, started, threads, arg, ret>>

\* lifespan startup, main.py 15-22: get_classifier(use_mock=False), load_model("avocado")
Lifespan ==
    /\ ~started
    /\ \E fs \in FsOutcomes :
        LET um == IF _classifier = "None" THEN FALSE ELSE use_mock
            lm == load_model(um, models, loads, "avocado", fs)
        IN  /\ _classifier' = "ProduceClassifier"
            /\ use_mock' = lm.use_mock
            /\ models' = lm.models
            /\ loads' = lm.loads
            /\ last' = [NoCall EXCEPT !.op = "load_model", !.produce_type = "avocado",
                                      !.exc = lm.exc, !.ret = lm.ret]
    /\ started' = TRUE
    /\ UNCHANGED <<TF_AVAILABLE, threads, arg, ret>>

\* ProduceClassifier.load_model(produce_type) on the singleton
LoadModel(p) ==
    /\ _classifier # "None"
    /\ \E fs \in FsOf(use_mock, models, p) :
       \E lm \in {load_model(use_mock, models, loads, p, fs)} :
            /\ use_mock' = lm.use_mock
            /\ models' = lm.models
            /\ loads' = lm.loads
            /\ last' = [NoCall EXCEPT !.op = "load_model", !.produce_type = p,
                                      !.exc = lm.exc, !.ret = lm.ret]
    /\ UNCHANGED <<TF_AVAILABLE, _classifier, started, threads, arg, ret>>

\* ProduceClassifier.classify(image_base64, produce_type) on the singleton
Classify(image, p) ==
    /\ _classifier # "None"
    /\ \E fs \in FsOf(use_mock, models, p) :
       \E lm \in {load_model(use_mock, models, loads, p, fs)} :
       \E draws \in DrawsOf(lm, p, image) :
       \E output \in OutputsOf(lm, p, image) :
       \E r \in {classify(use_mock, models, loads, image, p, fs, draws, output)} :
            /\ use_mock' = r.use_mock
            /\ models' = r.models
            /\ loads' = r.loads
            /\ last' = [NoCall EXCEPT !.op = "classify", !.produce_type = p,
                                      !.image = image, !.exc = r.exc,
                                      !.result = r.result, !.payload = r.payload,
                                      !.predictions = r.predictions]
    /\ UNCHANGED <<TF_AVAILABLE, _classifier, started, threads, arg, ret>>

\* POST /classify, main.py 75-98; the request schema (classification.py 14-17)
\* answers 422 before the handler runs
ClassifyProduce(image, p) ==
    /\ started
    /\ IF p \notin KnownTypes
       THEN /\ last' = [NoCall EXCEPT !.op = "classify_produce", !.produce_type = p,
                                      !.image = image, !.exc = "RequestValidationError",
                                      !.status = 422]
            /\ UNCHANGED <<use_mock, models, loads>>
       ELSE \E fs \in FsOf(use_mock, models, p) :
            \E lm \in {load_model(use_mock, models, loads, p, fs)} :
            \E draws \in DrawsOf(lm, p, image) :
            \E output \in OutputsOf(lm, p, image) :
            \E r \in {classify(use_mock, models, loads, image, p, fs, draws, output)} :
            \E exc \in {IF r.exc = NoExc /\ ~response_valid(r.result)
                         THEN "ValidationError" ELSE r.exc} :
                 /\ use_mock' = r.use_mock
                 /\ models' = r.models
                 /\ loads' = r.loads
                 /\ last' = [NoCall EXCEPT !.op = "classify_produce", !.produce_type = p,
                                           !.image = image, !.exc = exc,
                                           !.status = status_of(exc),
                                           !.result = IF exc = NoExc THEN r.result ELSE NoResult,
                                           !.payload = r.payload,
                                           !.predictions = r.predictions]
    /\ UNCHANGED <<TF_AVAILABLE, _classifier, started, threads, arg, ret>>

Next ==
    \/ \E um \in BOOLEAN : GetClassifier(um)
    \/ Lifespan
    \/ \E p \in ProduceTypes : LoadModel(p)
    \/ \E image \in Images, p \in ProduceTypes : Classify(image, p)
    \/ \E image \in Images, p \in ProduceTypes : ClassifyProduce(image, p)

Spec == Init /\ [][Next]_vars

(***************************************************************************)
(* Claims about the service (under Spec).                                  *)
(***************************************************************************)
ClassifyOps == {"classify", "classify_produce"}

TableLen(p) == Len(class_mappings_get(p, <<>>))

\* C1: load_model never raises, returns True and leaves a mock or a loaded
\* model in the cache, whatever the disk and the load do; and with a mock
\* handle (artifact missing, load raised, runtime missing) a classify of a
\* decodable image returns success = true.
C1_GracefulDegradation ==
    /\ last.op = "load_model" =>
          /\ last.exc = NoExc
          /\ last.ret = TRUE
          /\ models[last.produce_type].kind \in {"mock", "real"}
    /\ (/\ last.op \in ClassifyOps
        /\ last.status # 422
        /\ Decodes(last.image)
        /\ models[last.produce_type].kind = "mock") =>
          /\ last.exc = NoExc
          /\ last.result.success = TRUE
          /\ last.op = "classify_produce" => last.status = 200

\* a classify of a decodable image succeeded on a mock left by a load that raised
C1_Witness ==
    /\ last.op = "classify"
    /\ Decodes(last.image)
    /\ models[last.produce_type].kind = "mock"
    /\ loads[last.produce_type] = 1
    /\ last.result.success = TRUE

\* C2: once a produce type has a cached handle, no later call changes the
\* handle or loads an artifact for that produce type again.
C2_Memoized ==
    [][\A p \in ProduceTypes :
          models[p].kind # "none" => (models'[p] = models[p] /\ loads'[p] = loads[p])]_vars

\* a request classified avocado with the real model the startup had loaded
C2_Witness ==
    /\ started
    /\ last.op = "classify_produce"
    /\ last.produce_type = "avocado"
    /\ models["avocado"].kind = "real"
    /\ loads["avocado"] = 1
    /\ last.result.success = TRUE

\* C5: a real model whose output length differs from the class table makes
\* classify fail (a 500 at the endpoint), never succeed.
C5_MismatchIsConfigurationError ==
    (/\ last.op \in ClassifyOps
     /\ last.produce_type \in KnownTypes
     /\ models[last.produce_type].kind = "real"
     /\ last.predictions.num # <<>>
     /\ Len(last.predictions.num) # TableLen(last.produce_type)) =>
        /\ last.result.success = FALSE
        /\ last.exc # NoExc
        /\ last.op = "classify_produce" => last.status >= 500

\* C6: classify rejects a produce type outside {avocado, banana} as a client
\* error and never returns a success result for it.
C6_UnknownTypeRejected ==
    (last.op \in ClassifyOps /\ last.produce_type \notin KnownTypes) =>
        /\ last.result.success = FALSE
        /\ last.exc # NoExc
        /\ last.op = "classify_produce" => last.status \in 400..499

\* C7: every decode failure (bad base64, or bytes that are no image) is a
\* 400-class answer of /classify.
C7_DecodeFailureIs400 ==
    (last.op = "classify_produce" /\ decode_base64_image(last.image).exc # NoExc) =>
        last.status \in 400..499

\* C10: every classify call for p leaves a cache entry for p, also when the
\* decoding or the preprocessing fails, and leaves the other entries alone.
C10_ResolveBeforeDecode ==
    [][(last'.op \in ClassifyOps /\ last'.status # 422) =>
          /\ models'[last'.produce_type].kind # "none"
          /\ \A q \in ProduceTypes \ {last'.produce_type} : models'[q] = models[q]]_vars

\* a classify that failed to decode its image on a classifier that holds
\* exactly the one entry of its produce type
C10_Witness ==
    /\ last.op = "classify"
    /\ last.exc \in {"binascii.Error", "UnidentifiedImageError", "OSError"}
    /\ models[last.produce_type].kind = "real"
    /\ \A q \in ProduceTypes \ {last.produce_type} : models[q].kind = "none"

(***************************************************************************)
(* decode_base64_image as a function of its input string.                  *)
(***************************************************************************)
Quiet ==
    /\ TF_AVAILABLE = TRUE
    /\ _classifier = "None"
    /\ use_mock = FALSE
    /\ models = EmptyModels
    /\ loads = ZeroLoads
    /\ started = FALSE
    /\ last = NoCall
    /\ threads = IdleThreads

QuietVars == <<TF_AVAILABLE, _classifier, use_mock, models, loads, started, last, threads>>

InitCodec ==
    /\ Quiet
    /\ arg \in Strings(MaxInputLen)
    /\ ret = <<>>

Decode ==
    /\ ret = <<>>
    /\ ret' = <<decode_base64_image(arg)>>
    /\ UNCHANGED <<QuietVars, arg>>

SpecCodec == InitCodec /\ [][Decode]_vars

\* C8: the payload handed to the base64 decoder is the whole input after its
\* first comma, or the whole input when it has no comma.
C8_PayloadAfterFirstComma ==
    ret # <<>> => ret[1].payload = AfterFirstComma(arg)

(***************************************************************************)
(* _mock_predict as a function of the produce type and of its draws.       *)
(***************************************************************************)
InitMock ==
    /\ Quiet
    /\ arg \in UNION {[produce_type : {p},
                       draws : MockDraws(Len(class_mappings_get(p, AVOCADO_CLASSES)))] :
                      p \in ProduceTypes}
    /\ ret = <<>>

MockPredict ==
    /\ ret = <<>>
    /\ ret' = <<_mock_predict(arg.produce_type, arg.draws)>>
    /\ UNCHANGED <<QuietVars, arg>>

SpecMock == InitMock /\ [][MockPredict]_vars

\* v[i] lies in [0.70, 0.95]
InDominantRange(v, i) == 70 * v.den <= 100 * v.num[i] /\ 100 * v.num[i] <= 95 * v.den

\* C4: a mock vector sums to 1, holds exactly one value in [0.70, 0.95], and
\* that value is its maximum.
C4_MockOneDominant ==
    ret # <<>> =>
        LET v == ret[1]
            dominant == {i \in 1..Len(v.num) : InDominantRange(v, i)}
        IN  /\ SumSeq(v.num) = v.den
            /\ Cardinality(dominant) = 1
            /\ \A i \in dominant : \A j \in 1..Len(v.num) : v.num[j] <= v.num[i]

(***************************************************************************)
(* The response builder as a function of the probability vector.           *)
(***************************************************************************)
\* confidences, in hundredths
ConfVals == {10, 30, 60}

InitBuild ==
    /\ Quiet
    /\ arg \in [produce_type : ProduceTypes,
                predictions : [num : UNION {[1..n -> ConfVals] : n \in 0..MaxVectorLen},
                               den : {100}]]
    /\ ret = <<>>

Build ==
    /\ ret = <<>>
    /\ ret' = <<build_response(arg.predictions, arg.produce_type)>>
    /\ UNCHANGED <<QuietVars, arg>>

SpecBuild == InitBuild /\ [][Build]_vars

\* the zero-based index of the vector an item was built from
OrigIndex(item, produce_type, n) ==
    CHOOSE k \in 0..(n - 1) :
        class_info(class_mappings_get(produce_type, <<>>), k).name = item.class_name

\* C9: all_predictions holds one item per entry of the vector, sorted
\* non-increasing by confidence, equal confidences in ascending index order,
\* and the summary fields are those of its first item.
C9_SortedStableTop ==
    (ret # <<>> /\ ret[1].exc = NoExc) =>
        LET r == ret[1].result
            a == r.all_predictions
            n == Len(arg.predictions.num)
            items == prediction_items(arg.predictions, arg.produce_type)
        IN  /\ Len(a) = n
            /\ \A k \in 1..n : \E i \in 1..n : a[i] = items[k]
            /\ \A i, j \in 1..n : i < j => ~ConfLess(a[i], a[j])
            /\ \A i, j \in 1..n :
                  (i < j /\ ConfEq(a[i], a[j])) =>
                      OrigIndex(a[i], arg.produce_type, n) < OrigIndex(a[j], arg.produce_type, n)
            /\ r.predicted_class = a[1].class_name
            /\ r.predicted_label = a[1].class_label
            /\ r.confidence = a[1].confidence
            /\ r.success = TRUE

\* a response whose top two items tie and whose last item is strictly smaller
C9_Witness ==
    /\ ret # <<>>
    /\ ret[1].exc = NoExc
    /\ Len(ret[1].result.all_predictions) >= 3
    /\ ConfEq(ret[1].result.all_predictions[1], ret[1].result.all_predictions[2])
    /\ ConfLess(ret[1].result.all_predictions[3], ret[1].result.all_predictions[2])

(***************************************************************************)
(* load_model called from several threads on the shared singleton, one     *)
(* step per statement; the startup has run.                                *)
(***************************************************************************)
Threads == 1..NumThreads

InitConc ==
    /\ TF_AVAILABLE \in BOOLEAN
    /\ _classifier = "ProduceClassifier"
    /\ \E fs \in FsOutcomes :
        \E lm \in {load_model(FALSE, EmptyModels, ZeroLoads, "avocado", fs)} :
            /\ use_mock = lm.use_mock
            /\ models = lm.models
            /\ loads = lm.loads
    /\ started = TRUE
    /\ last = NoCall
    /\ threads = IdleThreads
    /\ arg = <<>>
    /\ ret = <<>>

ConcRest == <<TF_AVAILABLE, _classifier, started, last, arg, ret>>

Goto(t, pc) == threads' = [threads EXCEPT ![t].pc = pc]

\* a request thread enters load_model(p)
T_Call(t, p) ==
    /\ threads[t].pc = "idle"
    /\ threads' = [threads EXCEPT ![t] = [pc |-> "l71", produce_type |-> p, model |-> NoEntry]]
    /\ UNCHANGED <<use_mock, models, loads, ConcRest>>

\* 71-74
T_CheckMock(t) ==
    /\ threads[t].pc = "l71"
    /\ IF use_mock
       THEN /\ models' = [models EXCEPT ![threads[t].produce_type] = Mock]
            /\ Goto(t, "idle")
       ELSE /\ Goto(t, "l76")
            /\ UNCHANGED models
    /\ UNCHANGED <<use_mock, loads, ConcRest>>

\* 76-77
T_CheckCache(t) ==
    /\ threads[t].pc = "l76"
    /\ IF models[threads[t].produce_type].kind # "none"
       THEN Goto(t, "idle")
       ELSE Goto(t, "l79")
    /\ UNCHANGED <<use_mock, models, loads, ConcRest>>

\* 79-83
T_CheckRuntime(t) ==
    /\ threads[t].pc = "l79"
    /\ IF ~TF_AVAILABLE
       THEN /\ use_mock' = TRUE
            /\ models' = [models EXCEPT ![threads[t].produce_type] = Mock]
            /\ Goto(t, "idle")
       ELSE /\ Goto(t, "l86")
            /\ UNCHANGED <<use_mock, models>>
    /\ UNCHANGED <<loads, ConcRest>>

\* 86-99
T_FindPath(t) ==
    /\ threads[t].pc = "l86"
    /\ \E fs \in FsOutcomes :
        IF model_path(fs) = "None"
        THEN /\ models' = [models EXCEPT ![threads[t].produce_type] = Mock]
             /\ Goto(t, "idle")
        ELSE /\ Goto(t, "l102")
             /\ UNCHANGED models
    /\ UNCHANGED <<use_mock, loads, ConcRest>>

\* 102: the artifact is loaded
T_Load(t) ==
    /\ threads[t].pc = "l102"
    /\ loads' = [loads EXCEPT ![threads[t].produce_type] = @ + 1]
    /\ \E load \in LoadOutcomes :
        IF load.exc = NoExc
        THEN threads' = [threads EXCEPT ![t].pc = "l103", ![t].model = Real(load.out)]
        ELSE Goto(t, "l109")
    /\ UNCHANGED <<use_mock, models, ConcRest>>

\* 103-107
T_Store(t) ==
    /\ threads[t].pc = "l103"
    /\ models' = [models EXCEPT ![threads[t].produce_type] = threads[t].model]
    /\ Goto(t, "idle")
    /\ UNCHANGED <<use_mock, loads, ConcRest>>

\* 108-112
T_Except(t) ==
    /\ threads[t].pc = "l109"
    /\ models' = [models EXCEPT ![threads[t].produce_type] = Mock]
    /\ Goto(t, "idle")
    /\ UNCHANGED <<use_mock, loads, ConcRest>>

NextConc ==
    \/ \E t \in Threads, p \in KnownTypes : T_Call(t, p)
    \/ \E t \in Threads : T_CheckMock(t)
    \/ \E t \in Threads : T_CheckCache(t)
    \/ \E t \in Threads : T_CheckRuntime(t)
    \/ \E t \in Threads : T_FindPath(t)
    \/ \E t \in Threads : T_Load(t)
    \/ \E t \in Threads : T_Store(t)
    \/ \E t \in Threads : T_Except(t)

SpecConc == InitConc /\ [][NextConc]_vars

\* C3: however the threads interleave, the artifact of a produce type is
\* loaded at most once.
C3_LoadedAtMostOnce ==
    \A p \in ProduceTypes : loads[p] <= 1

====
